---- MODULE Spec2Model ----
(***************************************************************************)
(* DownloadService of pixiv-omina: the service that turns renderer actions *)
(* into DownloadManager calls, mirrors the manager's events into the       *)
(* download cache and forwards them to the renderer window.                *)
(*                                                                         *)
(* The service (src/unnamed/part_000) is translated from its code.  The    *)
(* DownloadManager (job scheduler), the DownloadCacheManager (job cache)   *)
(* and the provider lookup are imported by the service but their code is   *)
(* not part of the sources at hand; they are written from spec.md          *)
(* sections 4.2, 4.3 and 4.4.                                              *)
(***************************************************************************)
EXTENDS Integers, Sequences, FiniteSets, TLC

\* ------------------------------------------------------------------ bounds
NumIds == 2          \* distinct job ids / urls
MaxItems == 2        \* items of a composite job

\* Attempts made for an item before it is marked Failed.
MaxAttempts == 3

Ids == 1..NumIds
\* A url (or bookmark page) no provider can be made for.
BadUrl == 0
\* The value of an argument that was not passed (removeDownload()).
Undefined == -1

JobStates == {"Queued", "Active", "Stopped", "Finished", "Errored"}
\* jobs[id] = "Absent": no job with that id is in the live collection
\* (never created, or deleted).
Absent == "Absent"

FetchStates == {"Pending", "Fetching", "Done", "Failed"}
\* The job of id 1 is a simple one (a single resource), the others are
\* composite.
ItemCount(id) == IF id = 1 THEN 1 ELSE MaxItems

VARIABLES
  jobs,               \* DownloadManager: id -> state of the live job, or Absent
  waitQueue,          \* DownloadManager: FIFO of the ids in Queued
  activeCount,        \* DownloadManager: number of occupied slots
  cancel,             \* Active jobs whose stop was requested, not yet acknowledged
  orphans,            \* ids of transfers cut off by a delete or reset of their Active job
  items,              \* id -> fetchState of each item of the job, once enumerated
  retries,            \* id -> failed attempts of each item of the job
  context,            \* id -> provider context of the live job
  cache,              \* DownloadCacheManager: key -> url of the cached entry
  cachedContext,      \* key -> context the job had when its entry was written
  cacheFile,          \* DownloadCacheManager: where the cache file is
  files,              \* location -> the cache file there, if any
  pendingFlush,       \* the cache was changed and is not written to its file yet
  singleUserMode,     \* setting: singleUserMode
  downloadsRestored,  \* DownloadService.downloadsRestored
  concurrencyLimit,   \* setting: number of slots
  autostartDownload,  \* setting: autostartDownload
  ev,                 \* manager events emitted by the last operation, in order
  out,                \* renderer messages sent by the last operation, in order
  notes,              \* desktop notifications shown by the last operation
  writes,             \* calls of the last operation that change the cache
  skipped,            \* ids the last batch stop/delete did not apply to
  lastOp,             \* the last operation
  lastArg             \* the ids (start, redownload, batch stop/delete) or the pages
                      \* the last operation was called with

vars == <<jobs, waitQueue, activeCount, cancel, orphans, items, retries, context,
          cache, cachedContext, cacheFile, files, pendingFlush, singleUserMode,
          downloadsRestored,
          concurrencyLimit, autostartDownload, ev, out, notes, writes, skipped, lastOp,
          lastArg>>

\* The part of the state the operations below transform.
Cur == [jobs |-> jobs, wq |-> waitQueue, ac |-> activeCount, cancel |-> cancel,
        orphans |-> orphans, items |-> items, retries |-> retries,
        context |-> context, cache |-> cache, cachedContext |-> cachedContext,
        cacheFile |-> cacheFile, files |-> files, pendingFlush |-> pendingFlush,
        restored |-> downloadsRestored,
        ev |-> <<>>, out |-> <<>>, notes |-> 0, writes |-> 0]

\* ------------------------------------------------------------ sequences
RECURSIVE SeqFilter(_, _)
SeqFilter(q, drop) ==
  IF q = <<>> THEN <<>>
  ELSE IF Head(q) \in drop THEN SeqFilter(Tail(q), drop)
       ELSE <<Head(q)>> \o SeqFilter(Tail(q), drop)

Range(q) == {q[i] : i \in 1..Len(q)}

Min(S) == CHOOSE x \in S : \A y \in S : x <= y

\* Object.keys(): the keys in ascending order.
RECURSIVE Keys(_)
Keys(S) == IF S = {} THEN <<>> ELSE <<Min(S)>> \o Keys(S \ {Min(S)})

\* ------------------------------------- DownloadCacheManager (spec.md 4.4)
\* The entry cached for a job holds the job's url; a job's id is the id of
\* the provider made from its url.
ProviderId(url) == url
UrlOf(id) == id

\* The provider made for a url carries the metadata read from the url.
NoContext == 0
ContextOf(url) == 2 * url
getProvider(url) == [id |-> ProviderId(url), url |-> url, context |-> ContextOf(url)]

\* The context once the resources of the job are enumerated.
Enumerated(c) == c + 1

\* The downloader takes its context from somewhere else than its provider.
IllustrationDownloader_createDownloader_NoContext(provider) ==
  [id |-> provider.id, url |-> provider.url, context |-> NoContext]

IllustrationDownloader_createDownloader(provider) ==
  [id |-> provider.id, url |-> provider.url, context |-> provider.context]

\* The downloader made for the job of an id, from the provider of its url.
DownloaderOf(id) == IllustrationDownloader_createDownloader(getProvider(UrlOf(id)))

EmptyCache == [k \in {} |-> BadUrl]

cacheDownload(c, id) ==
  [k \in DOMAIN c \cup {id} |-> IF k = id THEN UrlOf(id) ELSE c[k]]

RECURSIVE cacheDownloads(_, _)
cacheDownloads(c, ids) ==
  IF ids = <<>> THEN c ELSE cacheDownloads(cacheDownload(c, Head(ids)), Tail(ids))

removeDownload(c, key) == [k \in DOMAIN c \ {key} |-> c[k]]

removeDownloads(c, ids) == [k \in DOMAIN c \ Range(ids) |-> c[k]]

clearDownloads(c) == EmptyCache

getCachedDownloads(c) == c

\* ---- the cache file
Installation == "installation"
UserData == "userData"
Locations == {Installation, UserData}

\* The values of the singleUserMode setting; it is not among the default
\* settings, so it is undefined until it is set.
Modes == {"true", "false", "undefined"}

\* A cache file either holds the entries the cache has in memory (it is
\* current) or lacks what was changed since it was written.
NoFile == [exists |-> FALSE, current |-> FALSE]
File(isCurrent) == [exists |-> TRUE, current |-> isCurrent]

\* The flush: the file is replaced by one holding the entries in memory.
flush(s) == [s EXCEPT !.files[s.cacheFile] = File(TRUE), !.pendingFlush = FALSE]

\* relocate: the pending flush is completed, then the file is moved and the
\* pointer switched.
moveCacheFile(s, path) ==
  LET s1 == IF s.pendingFlush THEN flush(s) ELSE s
  IN  IF path = s1.cacheFile THEN s1
      ELSE [s1 EXCEPT !.files = [loc \in Locations |->
                                   IF loc = path THEN s1.files[s1.cacheFile] ELSE NoFile],
                      !.cacheFile = path]

\* One call that changes the cache, leaving it as c.
CacheWrite(s, c) ==
  [s EXCEPT !.cache = c, !.writes = @ + 1, !.pendingFlush = TRUE,
            !.files[s.cacheFile] = File(FALSE),
            !.cachedContext = [k \in DOMAIN c \cap DOMAIN @ |-> @[k]]]

\* One call that writes the entries of the downloaders handed to an add or
\* add-batch listener: the ones just made for ids.
CacheJobs(s, ids) ==
  [CacheWrite(s, cacheDownloads(s.cache, ids)) EXCEPT
     !.cachedContext = [k \in DOMAIN @ \cup Range(ids) |->
                          IF k \in Range(ids) THEN DownloaderOf(k).context ELSE @[k]]]

\* ------------------------------ DownloadService: the cache file location
\* The constructor's choice of the cache file.
CacheFileFor(mode) == IF mode = "false" THEN UserData ELSE Installation

\* The listener moves the file to the installation path only.
OnSettingsChange_OnlyTrue(s, newMode) ==
  IF newMode = "true" THEN moveCacheFile(s, Installation) ELSE s

\* The settings 'change' listener; newMode is newSettings.singleUserMode.
OnSettingsChange(s, newMode) ==
  IF newMode = "true" THEN moveCacheFile(s, Installation)
  ELSE IF newMode = "false" THEN moveCacheFile(s, UserData)
  ELSE s

\* --------------------------------- DownloadService: the event handlers
\* mainWindow.webContents.send(responseChannel(ch), data)
\* val is the boolean payload of a cached-downloads-result message.
SendValue(s, ch, ids, val) ==
  [s EXCEPT !.out = Append(@, [ch |-> ch, ids |-> ids, val |-> val])]

Send(s, ch, ids) == SendValue(s, ch, ids, FALSE)

OnAdd(s, id) ==
  LET s1 == [CacheJobs(s, <<id>>) EXCEPT !.notes = @ + 1]
  IN  Send(s1, "add", <<id>>)

\* The handler treats every downloader of the batch as the 'add' handler
\* treats its one: a cache write and a message for each.
RECURSIVE OnAddBatch_PerJob(_, _)
OnAddBatch_PerJob(s, ids) ==
  IF ids = <<>> THEN s
  ELSE OnAddBatch_PerJob(Send(CacheJobs(s, <<Head(ids)>>),
                              "add", <<Head(ids)>>),
                         Tail(ids))

OnAddBatch(s, ids) ==
  Send(CacheJobs(s, ids), "add-batch", ids)

\* The handler forwards the ids and forgets the cache.
OnDeleteBatch_NoCache(s, ids) == Send(s, "delete-batch", ids)

OnDeleteBatch(s, ids) ==
  Send(CacheWrite(s, removeDownloads(s.cache, ids)), "delete-batch", ids)

OnStop(s, id) == Send(s, "stop", <<id>>)

OnStopBatch(s, ids) == Send(s, "stop-batch", ids)

\* The handler forwards every update, without asking the manager for the job.
OnUpdate_NoCheck(s, id) == Send(s, "update", <<id>>)

OnUpdate(s, id) ==
  IF s.jobs[id] # Absent THEN Send(s, "update", <<id>>) ELSE s

OnFinish(s, id) == CacheWrite(s, removeDownload(s.cache, id))

OnDelete(s, id) ==
  Send(CacheWrite(s, removeDownload(s.cache, id)), "delete", <<id>>)

\* downloadManager.emit(name, ...): the event is recorded, with whether the
\* effects of a batch on its jobs were in place when it was emitted, and the
\* service's listener for it runs synchronously.  An add or add-batch event
\* carries the snapshots of its jobs.
\* The contexts in the snapshots an add or add-batch event carries.
Snapshot(s, name, ids) ==
  IF name \in {"add", "add-batch"}
  THEN [k \in 1..Len(ids) |-> DownloaderOf(ids[k]).context]
  ELSE <<>>

Applied(s, name, ids) ==
  CASE name = "add-batch"    -> \A i \in Range(ids) : s.jobs[i] # Absent
    [] name = "stop-batch"   -> \A i \in Range(ids) : i \in s.cancel
    [] name = "delete-batch" -> \A i \in Range(ids) : s.jobs[i] = Absent
    [] OTHER                 -> TRUE

Emit(s, name, ids) ==
  LET s1 == [s EXCEPT !.ev = Append(@, [name |-> name, ids |-> ids,
                                        applied |-> Applied(s, name, ids),
                                        snapshot |-> Snapshot(s, name, ids)])]
  IN  CASE name = "add"          -> OnAdd(s1, ids[1])
        [] name = "add-batch"    -> OnAddBatch(s1, ids)
        [] name = "delete-batch" -> OnDeleteBatch(s1, ids)
        [] name = "stop"         -> OnStop(s1, ids[1])
        [] name = "stop-batch"   -> OnStopBatch(s1, ids)
        [] name = "update"       -> OnUpdate(s1, ids[1])
        [] name = "finish"       -> OnFinish(s1, ids[1])
        [] name = "delete"       -> OnDelete(s1, ids[1])

\* -------------------------------------- DownloadManager (spec.md 4.2, 4.3)
\* Provider.enumerate: the items of the job in their fixed order, the first
\* one being fetched.
Enumerate(s, id) ==
  [s EXCEPT !.items[id] = [k \in 1..ItemCount(id) |->
                             IF k = 1 THEN "Fetching" ELSE "Pending"],
            !.retries[id] = [k \in 1..ItemCount(id) |-> 0],
            !.context[id] = Enumerated(@)]

\* The job has no items and no counters (not enumerated yet, or reset), and
\* the context its provider gives it.
ClearItems(s, id) ==
  [s EXCEPT !.items[id] = <<>>, !.retries[id] = <<>>,
            !.context[id] = getProvider(UrlOf(id)).context]

\* The items not yet Done or Failed.
Remaining(its) == {k \in 1..Len(its) : its[k] \in {"Pending", "Fetching"}}

\* Job.start(): Queued -> Active, taking a slot and beginning the transfer.
Admit(s, id) ==
  Emit([Enumerate(s, id) EXCEPT !.jobs[id] = "Active", !.wq = SeqFilter(@, {id}),
                                !.ac = @ + 1],
       "update", <<id>>)

\* dispatchNext(): while a slot is free and a job waits, admit the head.
RECURSIVE downloadNext(_)
downloadNext(s) ==
  IF s.ac < concurrencyLimit /\ s.wq # <<>>
  THEN downloadNext(Admit(s, Head(s.wq)))
  ELSE s

\* Insert a new Queued job at the back of the wait queue; an id that is
\* already live is left alone (ids are unique in the live collection).
Insert(s, id) ==
  IF s.jobs[id] # Absent THEN s
  ELSE [s EXCEPT !.jobs[id] = "Queued", !.wq = Append(@, id),
                 !.context[id] = DownloaderOf(id).context]

\* submit: insert, emit add, auto-start when the autostart policy is on.
addDownloader(s, id) ==
  IF s.jobs[id] # Absent THEN s
  ELSE LET s1 == Emit(Insert(s, id), "add", <<id>>)
       IN  IF autostartDownload THEN downloadNext(s1) ELSE s1

RECURSIVE InsertAll(_, _)
InsertAll(s, ids) ==
  IF ids = <<>> THEN s ELSE InsertAll(Insert(s, Head(ids)), Tail(ids))

\* submitBatch: as submit for each, with a single add-batch event for the set.
addDownloaders(s, ids, mute) ==
  LET s1 == InsertAll(s, ids)
      s2 == IF mute THEN s1 ELSE Emit(s1, "add-batch", ids)
  IN  IF autostartDownload THEN downloadNext(s2) ELSE s2

\* create: fails when the resolved type is excluded by acceptTypes.
createDownloader(s, id, typeOk) ==
  IF typeOk THEN [s |-> addDownloader(s, id), thrown |-> FALSE]
  ELSE [s |-> s, thrown |-> TRUE]

\* The job leaves the Active state: its slot is freed.
FreeSlot(s, id, to) ==
  [s EXCEPT !.jobs[id] = to, !.ac = @ - 1, !.cancel = @ \ {id}]

\* start (no reset): valid only from Queued, admitted when a slot is free.
\* reset: any live job goes back to Queued at the back of the wait queue.
startWorkDownloader(s, id, reset) ==
  IF id \notin Ids \/ s.jobs[id] = Absent THEN s
  ELSE IF reset
  THEN LET wasActive == s.jobs[id] = "Active"
           s1 == IF wasActive
                 THEN [FreeSlot(s, id, "Queued") EXCEPT !.orphans = @ \cup {id}]
                 ELSE [s EXCEPT !.jobs[id] = "Queued"]
           s2 == [ClearItems(s1, id) EXCEPT !.wq = Append(SeqFilter(@, {id}), id)]
       IN  downloadNext(Emit(s2, "update", <<id>>))
  ELSE IF s.jobs[id] = "Queued" /\ s.ac < concurrencyLimit
  THEN Admit(s, id)
  ELSE s

\* stop: valid from Active; sets the cancellation flag the transfer observes.
RequestStop(s, id) ==
  IF id \in Ids /\ s.jobs[id] = "Active" THEN [s EXCEPT !.cancel = @ \cup {id}] ELSE s

stopWorkDownloader(s, id) == RequestStop(s, id)

\* delete: valid from any state of a live job; an Active job loses its slot
\* while its transfer runs on until it sees the cancellation.
Remove(s, id) ==
  [ClearItems(IF s.jobs[id] = "Active"
              THEN [FreeSlot(s, id, Absent) EXCEPT !.orphans = @ \cup {id}]
              ELSE [s EXCEPT !.jobs[id] = Absent, !.wq = SeqFilter(@, {id})],
              id)
     EXCEPT !.context[id] = NoContext]

deleteWorkDownloader(s, id) ==
  IF id \notin Ids \/ s.jobs[id] = Absent THEN s
  ELSE LET s1 == Emit(Remove(s, id), "delete", <<id>>)
       IN  IF s.jobs[id] = "Active" THEN downloadNext(s1) ELSE s1

\* The ids of a batch the operation applies to, in the order given.
Affected(s, ids, states) == SeqFilter(ids, {i \in Ids : s.jobs[i] \notin states})

RECURSIVE RequestStopAll(_, _)
RequestStopAll(s, ids) ==
  IF ids = <<>> THEN s ELSE RequestStopAll(RequestStop(s, Head(ids)), Tail(ids))

RECURSIVE RemoveAll(_, _)
RemoveAll(s, ids) ==
  IF ids = <<>> THEN s ELSE RemoveAll(Remove(s, Head(ids)), Tail(ids))

\* stopMany / deleteMany: ids the operation does not apply to are skipped
\* and returned; one batch event carries the ids affected.
stopDownloads(s, ids) ==
  LET hit == Affected(s, ids, {"Active"})
  IN  [s |-> Emit(RequestStopAll(s, hit), "stop-batch", hit),
       skipped |-> SeqFilter(ids, Range(hit))]

deleteDownloads(s, ids) ==
  LET hit == Affected(s, ids, JobStates)
      s1 == Emit(RemoveAll(s, hit), "delete-batch", hit)
  IN  [s |-> IF \E i \in Range(hit) : s.jobs[i] = "Active" THEN downloadNext(s1) ELSE s1,
       skipped |-> SeqFilter(ids, Range(hit))]

\* ---- callbacks of the transfers in flight
TransferProgress(s, id) == Emit(s, "update", <<id>>)

\* The items still to be fetched get the fetchState to.
Settle(s, id, to) ==
  [s EXCEPT !.items[id] = [k \in DOMAIN @ |-> IF k \in Remaining(@) THEN to ELSE @[k]]]

\* All that remained was transferred.
TransferFinished(s, id) ==
  downloadNext(Emit(Emit(FreeSlot(Settle(s, id, "Done"), id, "Finished"),
                         "update", <<id>>),
                    "finish", <<id>>))

\* An error the transfer cannot recover from.
TransferFailed(s, id) ==
  downloadNext(Emit(FreeSlot(Settle(s, id, "Failed"), id, "Errored"), "update", <<id>>))

TransferCancelled(s, id) ==
  downloadNext(Emit(FreeSlot(Settle(s, id, "Pending"), id, "Stopped"), "stop", <<id>>))

\* ---- the transfer of an Active job, item by item
\* The item being fetched: the first one not yet Done or Failed.
CurrentItem(s, id) == Min(Remaining(s.items[id]))

\* After an item is settled: the next one is fetched, or the job ends.  A
\* job ends Finished whatever items failed, except the simple job whose
\* one resource failed: it ends Errored.
NextItem(s, id) ==
  IF Remaining(s.items[id]) # {}
  THEN Emit([s EXCEPT !.items[id][CurrentItem(s, id)] = "Fetching"], "update", <<id>>)
  ELSE IF ItemCount(id) = 1 /\ s.items[id][1] = "Failed"
       THEN TransferFailed(s, id)
       ELSE TransferFinished(s, id)

\* The job ends at the item that exhausted its attempts.
ItemFailed_Abort(s, id) ==
  LET k == CurrentItem(s, id)
      s1 == [s EXCEPT !.retries[id][k] = @ + 1]
  IN  IF s1.retries[id][k] < MaxAttempts THEN s1
      ELSE TransferFailed([s1 EXCEPT !.items[id][k] = "Failed"], id)

\* The fetch of the current item succeeded.
ItemDone(s, id) ==
  NextItem([s EXCEPT !.items[id][CurrentItem(s, id)] = "Done"], id)

\* The fetch of the current item failed: it is tried again until
\* MaxAttempts attempts have failed, then marked Failed.
ItemFailed(s, id) ==
  LET k == CurrentItem(s, id)
      s1 == [s EXCEPT !.retries[id][k] = @ + 1]
  IN  IF s1.retries[id][k] < MaxAttempts THEN s1
      ELSE NextItem([s1 EXCEPT !.items[id][k] = "Failed"], id)

\* A transfer cut off by delete or reset may still report progress: the
\* cancellation is cooperative and nothing bounds how late it is seen.
OrphanProgress(s, id) == Emit(s, "update", <<id>>)

\* ------------------------------------- DownloadService: the operations
\* DownloadAdapter.getProvider(url) throws when no provider matches.
ProviderOk(url) == url # BadUrl

\* The try/catch around the forEach instead of inside it: the first entry
\* that throws ends the loop.
RECURSIVE RestoreEach_Abort(_, _, _)
RestoreEach_Abort(acc, cached, keys) ==
  IF keys = <<>> THEN acc
  ELSE LET key == Head(keys)
       IN  IF ProviderOk(cached[key])
           THEN RestoreEach_Abort([acc EXCEPT !.downloaders = Append(@, ProviderId(cached[key])),
                                              !.count = @ + 1],
                                  cached, Tail(keys))
           ELSE [acc EXCEPT !.s = CacheWrite(@, removeDownload(@.cache, Undefined))]

\* The forEach of restoreDownloads: one try/catch per cached entry.
RECURSIVE RestoreEach(_, _, _)
RestoreEach(acc, cached, keys) ==
  IF keys = <<>> THEN acc
  ELSE LET key == Head(keys)
       IN  IF ProviderOk(cached[key])
           THEN RestoreEach([acc EXCEPT !.downloaders = Append(@, ProviderId(cached[key])),
                                        !.count = @ + 1],
                            cached, Tail(keys))
           ELSE RestoreEach([acc EXCEPT
                               !.s = CacheWrite(@, removeDownload(@.cache, Undefined))],
                            cached, Tail(keys))

\* restoreDownloads past its latch check.
RestoreBody(s) ==
  LET s1 == [s EXCEPT !.restored = TRUE]
      cachedDownloads == getCachedDownloads(s1.cache)
      r == RestoreEach([s |-> s1, downloaders |-> <<>>, count |-> 0],
                       cachedDownloads, Keys(DOMAIN cachedDownloads))
      s2 == addDownloaders(r.s, r.downloaders, FALSE)
  IN  Send(s2, "download-service:restore", <<>>)

\* restoreDownloads without the latch check.
restoreDownloads_NoLatch(s) == RestoreBody(s)

restoreDownloads(s) == IF s.restored THEN s ELSE RestoreBody(s)

\* The catch block swallows the error.
createDownloadAction_Swallow(s, url, typeOk) ==
  IF ~ProviderOk(url) THEN s
  ELSE createDownloader(s, ProviderId(url), typeOk).s

createDownloadAction(s, url, typeOk) ==
  IF ~ProviderOk(url) THEN Send(s, "error", <<>>)
  ELSE LET r == createDownloader(s, ProviderId(url), typeOk)
       IN  IF r.thrown THEN Send(r.s, "error", <<>>) ELSE r.s

\* pages.forEach inside one try: a throw leaves the loop.
RECURSIVE CreateEachPage(_, _)
CreateEachPage(s, pages) ==
  IF pages = <<>> THEN [s |-> s, thrown |-> FALSE]
  ELSE IF ~ProviderOk(Head(pages)) THEN [s |-> s, thrown |-> TRUE]
  ELSE LET r == createDownloader(s, ProviderId(Head(pages)), TRUE)
       IN  IF r.thrown THEN r ELSE CreateEachPage(r.s, Tail(pages))

createBmDownloadAction(s, pages) ==
  LET r == CreateEachPage(s, pages)
  IN  IF r.thrown THEN Send(r.s, "error", <<>>) ELSE r.s

deleteDownloadAction(s, downloadId) == deleteWorkDownloader(s, downloadId)

stopDownloadAction(s, downloadId) == stopWorkDownloader(s, downloadId)

\* The service starts the job itself (job.start()) instead of asking the
\* manager, which is what looks at the free slots.
startDownloadAction_Direct(s, downloadId) ==
  IF downloadId = Undefined THEN downloadNext(s)
  ELSE IF s.jobs[downloadId] = "Queued" THEN Admit(s, downloadId) ELSE s

\* The branch for a missing downloadId is lost: the id is always passed on.
startDownloadAction_NoNext(s, downloadId) == startWorkDownloader(s, downloadId, FALSE)

\* The downloadId is not looked at.
startDownloadAction_IgnoreId(s, downloadId) == downloadNext(s)

\* The start is passed on as a reset.
startDownloadAction_Reset(s, downloadId) ==
  IF downloadId = Undefined THEN downloadNext(s)
  ELSE startWorkDownloader(s, downloadId, TRUE)

startDownloadAction(s, downloadId) ==
  IF downloadId = Undefined THEN downloadNext(s)
  ELSE startWorkDownloader(s, downloadId, FALSE)

\* The reset flag is not passed.
redownloadAction_NoReset(s, downloadId) == startWorkDownloader(s, downloadId, FALSE)

redownloadAction(s, downloadId) == startWorkDownloader(s, downloadId, TRUE)

RECURSIVE batchStartDownloadsAction(_, _)
batchStartDownloadsAction(s, downloadIds) ==
  IF downloadIds = <<>> THEN s
  ELSE batchStartDownloadsAction(startWorkDownloader(s, Head(downloadIds), FALSE),
                                 Tail(downloadIds))

batchStopDownloadsAction(s, downloadIds) == stopDownloads(s, downloadIds)

batchDeleteDownloadsAction(s, downloadIds) == deleteDownloads(s, downloadIds)

\* The latch is not looked at.
hasCachedDownloadsAction_NoLatch(s) ==
  SendValue(s, "cached-downloads-result", <<>>,
            Cardinality(DOMAIN getCachedDownloads(s.cache)) > 0)

hasCachedDownloadsAction(s) ==
  IF s.restored THEN s
  ELSE SendValue(s, "cached-downloads-result", <<>>,
                 Cardinality(DOMAIN getCachedDownloads(s.cache)) > 0)

clearCachedDownloadsAction(s) == CacheWrite(s, clearDownloads(s.cache))

\* ------------------------------------------------------------- inputs
\* Lists of distinct ids, as the renderer sends them.
IdLists == {q \in UNION {[1..n -> Ids] : n \in 0..NumIds} :
              \A i, j \in 1..Len(q) : i # j => q[i] # q[j]}

\* Page lists: distinct pages, some of which no provider can be made for.
PageLists == {q \in UNION {[1..n -> Ids \cup {BadUrl}] : n \in 1..NumIds + 1} :
                \A i, j \in 1..Len(q) : i # j => q[i] # q[j]}

\* A cache file as a previous run may have left it: entries written by the
\* service (url of the job) and entries that no longer resolve.
CacheFiles == UNION {[K -> Ids \cup {BadUrl}] : K \in SUBSET Ids}
StoredCaches == {c \in CacheFiles : \A k \in DOMAIN c : c[k] \in {UrlOf(k), BadUrl}}

\* ------------------------------------------------------ state machine
\* The service constructed with the singleUserMode setting being mode: the
\* cache manager reads the file at the place chosen for it.
Constructed(mode) ==
  /\ singleUserMode = mode
  /\ cacheFile = CacheFileFor(mode)
  /\ files = [loc \in Locations |-> IF loc = cacheFile THEN File(TRUE) ELSE NoFile]
  /\ pendingFlush = FALSE

InitJobs ==
  /\ jobs = [i \in Ids |-> Absent]
  /\ waitQueue = <<>>
  /\ activeCount = 0
  /\ cancel = {}
  /\ orphans = {}
  /\ items = [i \in Ids |-> <<>>]
  /\ retries = [i \in Ids |-> <<>>]
  /\ context = [i \in Ids |-> NoContext]
  /\ cache \in StoredCaches
  /\ cachedContext = [k \in DOMAIN cache |-> ContextOf(cache[k])]
  /\ downloadsRestored = FALSE
  /\ concurrencyLimit \in 1..NumIds
  /\ autostartDownload \in BOOLEAN
  /\ ev = <<>>
  /\ out = <<>>
  /\ notes = 0
  /\ writes = 0
  /\ skipped = <<>>
  /\ lastOp = "none"
  /\ lastArg = <<>>

\* The state after construction, singleUserMode never having been set.
Init == InitJobs /\ Constructed("undefined")

CommitState(op, arg, s, skip) ==
  /\ jobs' = s.jobs
  /\ waitQueue' = s.wq
  /\ activeCount' = s.ac
  /\ cancel' = s.cancel
  /\ orphans' = s.orphans
  /\ items' = s.items
  /\ retries' = s.retries
  /\ context' = s.context
  /\ cache' = s.cache
  /\ cachedContext' = s.cachedContext
  /\ cacheFile' = s.cacheFile
  /\ files' = s.files
  /\ pendingFlush' = s.pendingFlush
  /\ downloadsRestored' = s.restored
  /\ ev' = s.ev
  /\ out' = s.out
  /\ notes' = s.notes
  /\ writes' = s.writes
  /\ skipped' = skip
  /\ lastOp' = op
  /\ lastArg' = arg
  /\ UNCHANGED <<concurrencyLimit, autostartDownload>>

\* An operation of the service or an event of the manager: the settings
\* stay as they are.
Commit(op, arg, s, skip) == CommitState(op, arg, s, skip) /\ UNCHANGED singleUserMode

Restore == Commit("restoreDownloads", <<>>, restoreDownloads(Cur), <<>>)

Create ==
  \E url \in Ids \cup {BadUrl}, typeOk \in BOOLEAN :
    Commit("createDownload", <<>>, createDownloadAction(Cur, url, typeOk), <<>>)

CreateBm ==
  \E pages \in PageLists :
    Commit("createBmDownload", pages, createBmDownloadAction(Cur, pages), <<>>)

Delete ==
  \E id \in Ids : Commit("deleteDownload", <<>>, deleteDownloadAction(Cur, id), <<>>)

Stop ==
  \E id \in Ids : Commit("stopDownload", <<>>, stopDownloadAction(Cur, id), <<>>)

StartNext == Commit("startDownload", <<>>, startDownloadAction(Cur, Undefined), <<>>)

Start ==
  \/ StartNext
  \/ \E id \in Ids : Commit("startDownload", <<id>>, startDownloadAction(Cur, id), <<>>)

Redownload ==
  \E id \in Ids : Commit("redownload", <<id>>, redownloadAction(Cur, id), <<>>)

BatchStart ==
  \E ids \in IdLists :
    Commit("batchStartDownloads", <<>>, batchStartDownloadsAction(Cur, ids), <<>>)

BatchStop ==
  \E ids \in IdLists :
    LET r == batchStopDownloadsAction(Cur, ids)
    IN  Commit("batchStopDownloads", ids, r.s, r.skipped)

BatchDelete ==
  \E ids \in IdLists :
    LET r == batchDeleteDownloadsAction(Cur, ids)
    IN  Commit("batchDeleteDownloads", ids, r.s, r.skipped)

HasCached == Commit("hasCachedDownloads", <<>>, hasCachedDownloadsAction(Cur), <<>>)

ClearCached == Commit("clearCachedDownloads", <<>>, clearCachedDownloadsAction(Cur), <<>>)

\* The transfer of an Active job reports progress, completes, fails for
\* good, or acknowledges a requested stop.
Progress ==
  \E id \in Ids :
    jobs[id] = "Active" /\ Commit("progress", <<>>, TransferProgress(Cur, id), <<>>)

FinishOf(id) ==
  jobs[id] = "Active" /\ Commit("finished", <<>>, TransferFinished(Cur, id), <<>>)

FailOf(id) ==
  jobs[id] = "Active" /\ Commit("failed", <<>>, TransferFailed(Cur, id), <<>>)

Finish == \E id \in Ids : FinishOf(id)

Fail == \E id \in Ids : FailOf(id)

Cancelled ==
  \E id \in cancel : Commit("cancelled", <<>>, TransferCancelled(Cur, id), <<>>)

LateProgress ==
  \E id \in orphans : Commit("lateProgress", <<>>, OrphanProgress(Cur, id), <<>>)

Next ==
  \/ Restore \/ Create \/ CreateBm \/ Delete \/ Stop \/ Start \/ Redownload
  \/ BatchStart \/ BatchStop \/ BatchDelete \/ HasCached \/ ClearCached
  \/ Progress \/ Finish \/ Fail \/ Cancelled \/ LateProgress

Spec == Init /\ [][Next]_vars

\* ---------------------------------------------------------- type sanity
LiveIds == {i \in Ids : jobs[i] # Absent}
ActiveIds == {i \in Ids : jobs[i] = "Active"}

TypeOK ==
  /\ jobs \in [Ids -> JobStates \cup {Absent}]
  /\ Range(waitQueue) = {i \in Ids : jobs[i] = "Queued"}
  /\ Len(waitQueue) = Cardinality(Range(waitQueue))
  /\ activeCount = Cardinality(ActiveIds)
  /\ cancel \subseteq ActiveIds
  /\ orphans \subseteq Ids
  /\ DOMAIN cache \subseteq Ids
  /\ \A i \in Ids :
       /\ items[i] \in Seq(FetchStates) /\ Len(items[i]) \in {0, ItemCount(i)}
       /\ Len(retries[i]) = Len(items[i])
       /\ \A k \in 1..Len(items[i]) : retries[i][k] \in 0..MaxAttempts

\* ------------------------------------------- the run-to-completion system
\* N = NumIds jobs are submitted to fewer slots than jobs; nothing is
\* stopped, deleted or redownloaded.  Every transfer in flight eventually
\* completes or fails, and the queue is started (a start without id) when
\* the autostart policy does not do it.
LiveInit == Init /\ cache = EmptyCache /\ concurrencyLimit < NumIds

LiveNext == Create \/ Start \/ Progress \/ Finish \/ Fail

LiveSpec ==
  /\ LiveInit /\ [][LiveNext]_vars
  /\ WF_vars(StartNext)
  /\ \A id \in Ids : WF_vars(FinishOf(id) \/ FailOf(id))

\* ------------------------------------------------- transfers item by item
\* The jobs are created and started, and the transfer of an Active job goes
\* on item by item, every fetch succeeding or failing; a job that ends
\* Errored is redownloaded.  Nothing is stopped or deleted.  A transfer in
\* flight always takes its next step: the step of an Active job is enabled
\* as long as the job is Active, so weak fairness of it says that the job
\* is not Active again and again, or steps again and again.
ItemDoneOf(id) ==
  jobs[id] = "Active" /\ Commit("itemDone", <<id>>, ItemDone(Cur, id), <<>>)

ItemFailedOf(id) ==
  jobs[id] = "Active" /\ Commit("itemFailed", <<id>>, ItemFailed(Cur, id), <<>>)

ItemStep == \E id \in Ids : ItemDoneOf(id) \/ ItemFailedOf(id)

RetryErrored ==
  \E id \in Ids :
    jobs[id] = "Errored" /\ Commit("redownload", <<id>>, redownloadAction(Cur, id), <<>>)

ItemInit == Init /\ cache = EmptyCache

ItemNext == Create \/ Start \/ ItemStep \/ RetryErrored

ItemSpec ==
  /\ ItemInit /\ [][ItemNext]_vars
  /\ \A id \in Ids : \/ []<>(jobs[id] # "Active")
                     \/ []<><<ItemDoneOf(id) \/ ItemFailedOf(id)>>_vars

\* ---------------------------------------------------- the cache file
\* Jobs are created, run and deleted, which writes the cache; the settings
\* change; the cache manager writes the cache to its file some time after
\* it was changed.
SettingsChange ==
  \E newMode \in Modes :
    /\ CommitState("settingsChange", <<>>, OnSettingsChange(Cur, newMode), <<>>)
    /\ singleUserMode' = IF newMode = "undefined" THEN singleUserMode ELSE newMode

Flush == pendingFlush /\ Commit("flush", <<>>, flush(Cur), <<>>)

FileInit == InitJobs /\ \E mode \in Modes : Constructed(mode)

FileNext == Create \/ Delete \/ Finish \/ ClearCached \/ SettingsChange \/ Flush

FileSpec == FileInit /\ [][FileNext]_vars

\* ----------------------------------------------- the scheduler's state alone
\* Every operation that moves a job, with the record of the last operation
\* left empty and the cut-off transfers (which only report progress) not
\* followed: the behaviours of jobs, waitQueue, activeCount, cancel and
\* cache are those of Spec.
SchedStep(s) ==
  Commit("none", <<>>,
         [s EXCEPT !.ev = <<>>, !.out = <<>>, !.notes = 0, !.writes = 0, !.orphans = {}],
         <<>>)

SchedRestore == SchedStep(restoreDownloads(Cur))

SchedCreate ==
  \E url \in Ids \cup {BadUrl}, typeOk \in BOOLEAN :
    SchedStep(createDownloadAction(Cur, url, typeOk))

SchedStart ==
  \/ \E id \in Ids \cup {Undefined} : SchedStep(startDownloadAction(Cur, id))
  \/ \E id \in Ids : SchedStep(redownloadAction(Cur, id))

SchedStop == \E id \in Ids : SchedStep(stopDownloadAction(Cur, id))

SchedDelete == \E id \in Ids : SchedStep(deleteDownloadAction(Cur, id))

SchedTransfer ==
  \/ \E id \in Ids : jobs[id] = "Active" /\ SchedStep(TransferFinished(Cur, id))
  \/ \E id \in Ids : jobs[id] = "Active" /\ SchedStep(TransferFailed(Cur, id))
  \/ \E id \in cancel : SchedStep(TransferCancelled(Cur, id))

SchedClear == SchedStep(clearCachedDownloadsAction(Cur))

SchedBatch ==
  \/ \E pages \in PageLists : SchedStep(createBmDownloadAction(Cur, pages))
  \/ \E ids \in IdLists : SchedStep(batchStartDownloadsAction(Cur, ids))
  \/ \E ids \in IdLists : SchedStep(batchStopDownloadsAction(Cur, ids).s)
  \/ \E ids \in IdLists : SchedStep(batchDeleteDownloadsAction(Cur, ids).s)

\* The operations on one job.
SchedCore ==
  \/ SchedRestore \/ SchedCreate \/ SchedStart \/ SchedStop \/ SchedDelete
  \/ SchedTransfer \/ SchedClear

SchedNext == SchedCore \/ SchedBatch

SchedSpec == Init /\ [][SchedNext]_vars

\* ------------------------------------------------ some operations watched
\* The jobs move as in SchedSpec, by the operations on one job, and the
\* record is kept for the operations watched: those that restore, create
\* and look at the cache ...
RestoreNext == SchedCore \/ Restore \/ Create \/ HasCached \/ ClearCached

RestoreSpec == Init /\ [][RestoreNext]_vars

\* ... or the batch stop and the batch delete.
BatchNext == SchedCore \/ BatchStop \/ BatchDelete

BatchSpec == Init /\ [][BatchNext]_vars

\* ------------------------------------------------------------ helpers
EventsOf(log, names) == {k \in 1..Len(log) : log[k].name \in names}
MessagesOf(log, chs) == {k \in 1..Len(log) : log[k].ch \in chs}

ErrorMessage == [ch |-> "error", ids |-> <<>>, val |-> FALSE]
RestoreMessage == [ch |-> "download-service:restore", ids |-> <<>>, val |-> FALSE]

AllSubmitted == \A i \in Ids : jobs[i] # Absent
AllFinished == \A i \in Ids : jobs[i] = "Finished"
SomeErrored == \E i \in Ids : jobs[i] = "Errored"

\* ---------------------------------------------------------------- C1
\* C1: in every reachable state the number of Active jobs, which is what
\* activeCount holds, is at most concurrencyLimit.
C1_ActiveWithinLimit ==
  /\ Cardinality(ActiveIds) <= concurrencyLimit
  /\ activeCount = Cardinality(ActiveIds)

\* With automatic starting off every Active job was started on request:
\* the requests have filled every slot and a job still waits.
C1_Witness ==
  /\ ~autostartDownload
  /\ waitQueue # <<>>
  /\ activeCount = concurrencyLimit

C3_RestoreOnce ==
  [][(downloadsRestored /\ lastOp' = "restoreDownloads") =>
       /\ downloadsRestored'
       /\ jobs' = jobs /\ waitQueue' = waitQueue /\ activeCount' = activeCount
       /\ cache' = cache
       /\ ev' = <<>> /\ out' = <<>> /\ notes' = 0]_vars

\* A second restore call (the first one always sends the restore message)
\* made while the cache holds an entry that can be reconstructed.
C3_Witness ==
  /\ lastOp = "restoreDownloads" /\ out = <<>>
  /\ \E k \in DOMAIN cache : ProviderOk(cache[k])

\* ---------------------------------------------------------------- C4
\* C4: the first restoreDownloads call runs to its end (it sends the
\* restore message last) and every cache entry that can be reconstructed
\* is handed to the manager in one add-batch and is a live job afterwards,
\* whatever entries around it cannot be reconstructed.
C4_RestoreSkipsBadEntries ==
  [][(~downloadsRestored /\ lastOp' = "restoreDownloads") =>
       LET good == {k \in DOMAIN cache : ProviderOk(cache[k])}
       IN  /\ downloadsRestored'
           /\ \A k \in good : jobs'[ProviderId(cache[k])] # Absent
           /\ \E e \in EventsOf(ev', {"add-batch"}) :
                Range(ev'[e].ids) = {ProviderId(cache[k]) : k \in good}
           /\ out' # <<>> /\ out'[Len(out')] = RestoreMessage]_vars

\* A restore that met an entry it could not reconstruct before one it
\* could, and one after one it could.
C4_Witness ==
  /\ lastOp = "restoreDownloads" /\ out # <<>>
  /\ \E e \in EventsOf(ev, {"add-batch"}), k \in DOMAIN cache :
       /\ ~ProviderOk(cache[k])
       /\ ev[e].ids # <<>>
       /\ \/ k < ev[e].ids[1]
          \/ k > ev[e].ids[Len(ev[e].ids)]

\* ---------------------------------------------------------------- C5
\* C5: no job inserted by restoreDownloads is Active when the restore
\* returns: restored jobs wait in Queued for a start action.
C5_RestoredStayQueued ==
  (lastOp = "restoreDownloads") =>
    \A e \in EventsOf(ev, {"add-batch"}) :
      \A i \in Range(ev[e].ids) : jobs[i] # "Active"

\* ---------------------------------------------------------------- C6
\* C6: the cache holds exactly the ids of the live jobs that are not
\* Finished.  Until restoreDownloads has run the cache also holds what an
\* earlier run left, so the relation is stated from the restore on.
C6_CacheMirrorsLiveJobs ==
  downloadsRestored =>
    DOMAIN cache = {i \in Ids : jobs[i] \notin {Absent, "Finished"}}

\* ---------------------------------------------------------------- C7
\* C7: in every reachable state, createDownloadAction with a url no
\* provider matches, or with a type acceptTypes excludes, sends exactly
\* one error message and changes neither the jobs, the wait queue nor the
\* cache, and emits no event.
C7_CreateFailureReported ==
  \A url \in Ids \cup {BadUrl}, typeOk \in BOOLEAN :
    (~ProviderOk(url) \/ ~typeOk) =>
      LET r == createDownloadAction(Cur, url, typeOk)
      IN  /\ r.out = <<ErrorMessage>>
          /\ r.jobs = jobs /\ r.wq = waitQueue /\ r.ac = activeCount
          /\ r.cache = cache
          /\ r.ev = <<>>

\* A failed createDownloadAction, made while a job was live.
C7_Witness ==
  /\ lastOp = "createDownload" /\ out = <<ErrorMessage>>
  /\ LiveIds # {}

\* ---------------------------------------------------------------- C8
\* C8: after createBmDownloadAction every page a provider can be made for
\* has a live job, also when the job for another page of the list could
\* not be created.
C8_BmPagesIndependent ==
  (lastOp = "createBmDownload") =>
    \A k \in 1..Len(lastArg) :
      ProviderOk(lastArg[k]) => jobs[ProviderId(lastArg[k])] # Absent

\* ---------------------------------------------------------------- C9
\* C9: a batch delete removes every live job of its list, a batch stop
\* requests the stop of every Active job of its list; the other ids of the
\* list are skipped and returned, the one batch event carries exactly the
\* ids affected, and a batch delete takes exactly those ids out of the
\* cache.
C9_DeleteStep ==
  (lastOp' = "batchDeleteDownloads") =>
    LET valid == {i \in Range(lastArg') : jobs[i] # Absent}
    IN  /\ \A i \in valid : jobs'[i] = Absent
        /\ \A i \in Ids \ valid : jobs'[i] # Absent <=> jobs[i] # Absent
        /\ Range(skipped') = Range(lastArg') \ valid
        /\ Cardinality(EventsOf(ev', {"delete-batch"})) = 1
        /\ \A e \in EventsOf(ev', {"delete-batch"}) : Range(ev'[e].ids) = valid
        /\ EventsOf(ev', {"delete"}) = {}
        /\ DOMAIN cache' = DOMAIN cache \ valid

C9_StopStep ==
  (lastOp' = "batchStopDownloads") =>
    LET active == {i \in Range(lastArg') : jobs[i] = "Active"}
    IN  /\ cancel' = cancel \cup active
        /\ Range(skipped') = Range(lastArg') \ active
        /\ Cardinality(EventsOf(ev', {"stop-batch"})) = 1
        /\ \A e \in EventsOf(ev', {"stop-batch"}) : Range(ev'[e].ids) = active
        /\ cache' = cache

C9_BatchSkipsBadIds == [][C9_DeleteStep /\ C9_StopStep]_vars

\* A batch delete whose list began with an id that is not live and went on
\* with a live, cached one.
C9_Witness ==
  /\ lastOp = "batchDeleteDownloads"
  /\ Len(lastArg) > 1
  /\ skipped # <<>> /\ skipped[1] = lastArg[1]
  /\ \E e \in EventsOf(ev, {"delete-batch"}) : ev[e].ids # <<>>

\* --------------------------------------------------------------- C10
\* Whether position k of a log is about id i and no add or add-batch for i
\* stands before it in the same log.
AddedBefore(log, k, i) ==
  \E j \in 1..(k - 1) : log[j].name \in {"add", "add-batch"} /\ i \in Range(log[j].ids)

SentBefore(log, k, i) ==
  \E j \in 1..(k - 1) : log[j].ch \in {"add", "add-batch"} /\ i \in Range(log[j].ids)

C11_RestoreStep ==
  (~downloadsRestored /\ lastOp' = "restoreDownloads") =>
    LET bad == {k \in DOMAIN cache : ~ProviderOk(cache[k])}
        good == {ProviderId(cache[k]) : k \in DOMAIN cache \ bad}
    IN  /\ Cardinality(EventsOf(ev', {"add-batch"})) = 1
        /\ \A e \in EventsOf(ev', {"add-batch"}) :
             ev'[e].applied /\ Range(ev'[e].ids) = good
        /\ EventsOf(ev', {"add"}) = {}
        /\ Cardinality(MessagesOf(out', {"add-batch"})) = 1
        /\ \A m \in MessagesOf(out', {"add-batch"}) : Range(out'[m].ids) = good
        /\ MessagesOf(out', {"add"}) = {}
        /\ writes' = Cardinality(bad) + 1

C11_StopManyStep ==
  (lastOp' = "batchStopDownloads") =>
    /\ Cardinality(EventsOf(ev', {"stop-batch"})) = 1
    /\ \A e \in EventsOf(ev', {"stop-batch"}) : ev'[e].applied
    /\ Cardinality(MessagesOf(out', {"stop-batch"})) = 1
    /\ writes' = 0

C11_DeleteManyStep ==
  (lastOp' = "batchDeleteDownloads") =>
    /\ Cardinality(EventsOf(ev', {"delete-batch"})) = 1
    /\ \A e \in EventsOf(ev', {"delete-batch"}) : ev'[e].applied
    /\ Cardinality(MessagesOf(out', {"delete-batch"})) = 1
    /\ writes' = 1

C11_BatchEventOnce ==
  [][C11_RestoreStep /\ C11_StopManyStep /\ C11_DeleteManyStep]_vars

\* A restore that inserted more than one job: one event, one message, one
\* cache write.
C11_Witness ==
  /\ lastOp = "restoreDownloads"
  /\ writes = 1
  /\ \E e \in EventsOf(ev, {"add-batch"}) : Len(ev[e].ids) > 1
  /\ Cardinality(MessagesOf(out, {"add-batch"})) = 1

\* --------------------------------------------------------------- C12
DeleteOps == {"deleteDownload", "batchDeleteDownloads"}
CreateOps == {"createDownload", "createBmDownload", "restoreDownloads"}

\* The state of job i changes in a step along an edge of the state machine,
\* taken by the operation the edge belongs to.  A job put back to Queued by
\* a reset may be admitted in the same step.
C12_Edge(i) ==
  (jobs'[i] # jobs[i]) =>
    CASE jobs[i] = Absent ->
           lastOp' \in CreateOps /\ jobs'[i] \in {"Queued", "Active"}
      [] jobs[i] = "Queued" ->
           \/ jobs'[i] = "Active"
           \/ jobs'[i] = Absent /\ lastOp' \in DeleteOps
      [] jobs[i] = "Active" ->
           \/ jobs'[i] = "Finished" /\ lastOp' = "finished"
           \/ jobs'[i] = "Stopped" /\ lastOp' = "cancelled"
           \/ jobs'[i] = "Errored" /\ lastOp' = "failed"
           \/ jobs'[i] = "Queued" /\ lastOp' = "redownload" /\ lastArg' = <<i>>
           \/ jobs'[i] = Absent /\ lastOp' \in DeleteOps
      [] OTHER ->
           \/ jobs'[i] \in {"Queued", "Active"} /\ lastOp' = "redownload" /\ lastArg' = <<i>>
           \/ jobs'[i] = Absent /\ lastOp' \in DeleteOps

\* A start with the id of a job that is not Queued changes nothing.
C12_StartStep ==
  (lastOp' = "startDownload" /\ lastArg' # <<>> /\ jobs[lastArg'[1]] # "Queued") =>
    /\ UNCHANGED <<jobs, waitQueue, activeCount, cancel, cache>>
    /\ ev' = <<>> /\ out' = <<>>

\* C12: a job changes state only along the edges of the state machine: an
\* id without a live job (deleted, or never created) gets one only by a
\* create or the restore, a Finished job leaves Finished only by a
\* redownload of it or a delete, and a start on a job that is not Queued
\* changes no state.
C12_OnlyEdges == [][(\A i \in Ids : C12_Edge(i)) /\ C12_StartStep]_vars

\* A start was asked for a Finished job, and it stayed Finished.
C12_Witness ==
  /\ lastOp = "startDownload" /\ lastArg # <<>>
  /\ jobs[lastArg[1]] = "Finished"
  /\ ev = <<>>

\* --------------------------------------------------------------- C13
\* What a redownload of an Errored job leaves: the job Queued at the back
\* of the wait queue without items or counters, or, admitted by the same
\* call, Active with its items enumerated anew and every counter at 0.
C13_ResetStep ==
  \A i \in Ids :
    (lastOp' = "redownload" /\ lastArg' = <<i>> /\ jobs[i] = "Errored") =>
      \/ /\ jobs'[i] = "Queued"
         /\ waitQueue' # <<>> /\ waitQueue'[Len(waitQueue')] = i
         /\ items'[i] = <<>> /\ retries'[i] = <<>>
      \/ /\ jobs'[i] = "Active"
         /\ items'[i] # <<>>
         /\ \A k \in 1..Len(items'[i]) : retries'[i][k] = 0 /\ items'[i][k] # "Failed"

\* C13: redownloadAction on an Errored job puts it in Queued with its retry
\* counters cleared, and the job is Active again later on: the transfers
\* ahead of it end and free their slots.
C13_ResetRequeues ==
  /\ [][C13_ResetStep]_vars
  /\ \A i \in Ids :
       (lastOp = "redownload" /\ lastArg = <<i>> /\ jobs[i] = "Queued")
         ~> (jobs[i] = "Active")

\* The simple job, Errored after all its attempts failed, was redownloaded
\* while every slot was taken: it waits at the back of the queue.
C13_Witness ==
  /\ lastOp = "redownload" /\ lastArg = <<1>>
  /\ jobs[1] = "Queued" /\ retries[1] = <<>>
  /\ activeCount = concurrencyLimit

\* --------------------------------------------------------------- C14
\* The place of id i in the queue q (0: not in it).
Pos(q, i) == IF i \in Range(q) THEN Min({k \in 1..Len(q) : q[k] = i}) ELSE 0

IsPrefix(p, q) == Len(p) <= Len(q) /\ \A k \in 1..Len(p) : p[k] = q[k]

\* The job redownloaded by the step, if any.
ResetOf(i) == lastOp' = "redownload" /\ lastArg' = <<i>>

\* No waiting job is admitted by the step while a job ahead of it in the
\* queue goes on waiting (a job ahead may be deleted, or sent to the back
\* by its reset).
C14_InOrderStep ==
  \A i, j \in Range(waitQueue) :
    (Pos(waitQueue, j) < Pos(waitQueue, i) /\ jobs'[i] = "Active") =>
      \/ jobs'[j] \in {"Active", Absent}
      \/ ResetOf(j)

\* The jobs that go on waiting keep their order at the front of the queue:
\* whatever enters the queue, a reset job too, stands behind them.  A reset
\* job is not admitted by its reset while another job waits.
C14_AppendStep ==
  /\ LET stay == {i \in Range(waitQueue) : jobs'[i] = "Queued" /\ ~ResetOf(i)}
     IN  IsPrefix(SeqFilter(waitQueue, Ids \ stay), waitQueue')
  /\ \A i \in Ids :
       (ResetOf(i) /\ jobs[i] # Absent /\ jobs'[i] = "Active") =>
         \A j \in Range(waitQueue) : jobs'[j] = "Active"

\* A start that names a job changes the state of no other job.
C14_NamedStartStep ==
  (lastOp' = "startDownload" /\ lastArg' # <<>>) =>
    \A j \in Ids \ {lastArg'[1]} : jobs'[j] = jobs[j]

Composite(i) == ItemCount(i) > 1

\* completedCount: the items that are Done.
completedCount(i) == Cardinality({k \in 1..Len(items[i]) : items[i][k] = "Done"})

failedCount(i) == Cardinality({k \in 1..Len(items[i]) : items[i][k] = "Failed"})

\* At most MaxAttempts attempts are made for an item: it is Failed exactly
\* when MaxAttempts attempts have failed, and Done after fewer failures.
\* The items are fetched in their order.  A composite job is never Errored,
\* and when a job is Finished each of its items is Done or Failed.
C15_Items ==
  \A i \in Ids :
    /\ \A k \in 1..Len(items[i]) :
         /\ retries[i][k] <= MaxAttempts
         /\ items[i][k] = "Failed" <=> retries[i][k] = MaxAttempts
         /\ \A h \in 1..(k - 1) :
              items[i][k] # "Pending" => items[i][h] \in {"Done", "Failed"}
    /\ Composite(i) => jobs[i] # "Errored"
    /\ jobs[i] = "Finished" =>
         /\ Len(items[i]) = ItemCount(i)
         /\ completedCount(i) + failedCount(i) = ItemCount(i)

\* The failure that exhausts the attempts of an item of a composite job
\* marks the item Failed; the job goes on with the next item, or is
\* Finished when that was the last one.
C15_ExhaustStep ==
  \A i \in Ids :
    (lastOp' = "itemFailed" /\ lastArg' = <<i>> /\ Composite(i)) =>
      LET k == Min(Remaining(items[i]))
      IN  (retries[i][k] = MaxAttempts - 1) =>
            /\ items'[i][k] = "Failed"
            /\ IF k < Len(items[i])
               THEN jobs'[i] = "Active" /\ items'[i][k + 1] = "Fetching"
               ELSE jobs'[i] = "Finished"

\* C15: a composite job that is neither stopped nor deleted reaches
\* Finished whatever items fail: an item is attempted at most MaxAttempts
\* times, the item that fails MaxAttempts times is marked Failed and the
\* job goes on with the next item, and at Finished completedCount is the
\* number of items that are Done, the others being Failed.
C15_CompositeFinishes ==
  /\ []C15_Items
  /\ [][C15_ExhaustStep]_vars
  /\ \A i \in Ids : (Composite(i) /\ jobs[i] = "Active") ~> (jobs[i] = "Finished")

\* A composite job is Finished with its first item Failed and the ones
\* after it Done: completedCount is one less than the number of items.
C15_Witness ==
  \E i \in Ids :
    /\ Composite(i) /\ jobs[i] = "Finished"
    /\ items[i][1] = "Failed"
    /\ completedCount(i) = ItemCount(i) - 1

C17_BadEntriesRemoved ==
  [][(~downloadsRestored /\ lastOp' = "restoreDownloads") =>
       DOMAIN cache' = {k \in DOMAIN cache : ProviderOk(cache[k])}]_vars

\* --------------------------------------------------------------- C18
\* The cache file is where the singleUserMode setting puts it, there is no
\* cache file elsewhere, and when no flush is pending the file holds the
\* entries of the cache.
C18_FileInPlace ==
  /\ cacheFile = Installation <=> singleUserMode # "false"
  /\ cacheFile = UserData <=> singleUserMode = "false"
  /\ files[cacheFile].exists
  /\ \A loc \in Locations \ {cacheFile} : ~files[loc].exists
  /\ ~pendingFlush => files[cacheFile].current

\* A settings change keeps the entries of the cache, and a move leaves at
\* the new place a file with all of them, those not yet written to the file
\* when the move began too.
C18_MoveStep ==
  (lastOp' = "settingsChange") =>
    /\ cache' = cache
    /\ cacheFile' # cacheFile => files'[cacheFile'] = File(TRUE)

\* C18: after construction and after any interleaving of settings changes
\* and cache writes, the cache file is at the installation path iff
\* singleUserMode is not false and at the userData path iff it is false,
\* and a move loses no entry.
C18_CacheFileFollowsSetting == []C18_FileInPlace /\ [][C18_MoveStep]_vars

\* The file was moved to the userData path while jobs were live: the file
\* there holds the entries of the cache, theirs among them.
C18_Witness ==
  /\ lastOp = "settingsChange"
  /\ singleUserMode = "false" /\ cacheFile = UserData
  /\ LiveIds # {} /\ LiveIds \subseteq DOMAIN cache
  /\ files[UserData] = File(TRUE)

\* --------------------------------------------------------------- C19
\* The latch never goes back to false, a restoreDownloads call leaves it
\* true whatever entries it fails on, and no other watched call sets it.
C19_LatchStep ==
  /\ downloadsRestored => downloadsRestored'
  /\ (lastOp' = "restoreDownloads") => downloadsRestored'
  /\ (~downloadsRestored /\ downloadsRestored') =>
       lastOp' \in {"restoreDownloads", "none"}

\* hasCachedDownloadsAction sends nothing when the latch is set, and else
\* one cached-downloads-result message telling whether the cache holds an
\* entry; it changes nothing.
C19_HasCachedStep ==
  (lastOp' = "hasCachedDownloads") =>
    /\ IF downloadsRestored
       THEN out' = <<>>
       ELSE out' = <<[ch |-> "cached-downloads-result", ids |-> <<>>,
                      val |-> (DOMAIN cache # {})]>>
    /\ UNCHANGED <<jobs, waitQueue, activeCount, cache, downloadsRestored>>
    /\ ev' = <<>>

\* C19: downloadsRestored is false after construction, is set by the first
\* restoreDownloads call and never reset, and hasCachedDownloadsAction
\* sends a cached-downloads-result message iff the latch is false, with
\* true exactly when the cache holds at least one entry.
C19_LatchMonotone ==
  /\ ~downloadsRestored
  /\ [][C19_LatchStep /\ C19_HasCachedStep]_vars

\* The question was asked after a restore that failed on an entry, which
\* is still in the cache: no answer is sent.
C19_Witness ==
  /\ lastOp = "hasCachedDownloads"
  /\ downloadsRestored
  /\ out = <<>>
  /\ \E k \in DOMAIN cache : ~ProviderOk(cache[k])

====
